---- MODULE Spec2Model ----
(***************************************************************************)
(* Model of the invoice processing pipeline: the ProcessingService queue   *)
(* and concurrency controller, the retry loop around extraction, the       *)
(* ValidationService checks, and the HTTP handlers that write a job's      *)
(* status (upload, retry, PATCH, DELETE).                                  *)
(*                                                                         *)
(* Node.js runs every callback to its next await without interruption, so  *)
(* one action of the model is one such run: the code between two awaits.   *)
(* Money is counted in whole cents, dates in whole days relative to the    *)
(* day the server started, confidence scores in 1/1200 (every mean the     *)
(* code takes is then whole).                                              *)
(***************************************************************************)
EXTENDS Integers, Sequences, FiniteSets, TLC

\* ------------------------------------------------------------------------
\* Bounds of the model
\* ------------------------------------------------------------------------
NumJobs == 2
MaxConfiguredConcurrent == 2
MaxEnqueues == 3
MaxRetryInFlight == 2

\* config.processing.retryAttempts
RetryAttempts == 3

Ids == 1..NumJobs

\* ------------------------------------------------------------------------
\* Values of a candidate record
\* ------------------------------------------------------------------------
\* a numeric field that is null / undefined in the JSON
NullNum == -999999
\* a date string that new Date() cannot parse
BadDate == 99999

Abs(x) == IF x < 0 THEN -x ELSE x

\* JavaScript truthiness of a number-or-null and of a string-or-null
Truthy(n) == n # NullNum /\ n # 0
TruthyStr(s) == s # ""
\* (x || 0)
OrZero(n) == IF Truthy(n) THEN n ELSE 0

Msg(text, i) == <<text, i>>

\* the confidence score 1
ConfidenceOne == 1200

\* ------------------------------------------------------------------------
\* ValidationService
\* ------------------------------------------------------------------------
RECURSIVE SumAmounts(_)
\* lineItems.reduce((sum, item) => sum + (item.amount || 0), 0)
SumAmounts(items) ==
  IF items = <<>> THEN 0
  ELSE OrZero(Head(items).amount) + SumAmounts(Tail(items))

\* diff / base > 0.05 in floating point, diff > 0: a zero base gives
\* Infinity, a negative base a negative quotient
RelativeExceeds(diff, base) ==
  IF base > 0 THEN 20 * diff > base
  ELSE base = 0

NoFindings == [errors |-> <<>>, warnings |-> <<>>]

Join(f, g) == [errors |-> f.errors \o g.errors, warnings |-> f.warnings \o g.warnings]

validateRequiredFields(invoice) ==
  [errors |->
        (IF ~TruthyStr(invoice.vendorName) THEN <<Msg("Vendor name is required", 0)>> ELSE <<>>)
     \o (IF ~TruthyStr(invoice.invoiceNumber) THEN <<Msg("Invoice number is required", 0)>> ELSE <<>>)
     \o (IF invoice.invoiceDate = NullNum THEN <<Msg("Invoice date is required", 0)>> ELSE <<>>)
     \o (IF ~Truthy(invoice.totalAmount) /\ invoice.totalAmount # 0
           THEN <<Msg("Total amount is required", 0)>> ELSE <<>>)
     \o (IF invoice.lineItems = <<>> /\ ~Truthy(invoice.totalAmount)
           THEN <<Msg("Invoice must have line items or a total amount", 0)>> ELSE <<>>),
   warnings |-> <<>>]

\* one pass of the loop over the line items
validateLineItem(item, i) ==
  [errors |->
     IF Truthy(item.quantity) /\ Truthy(item.unitPrice) /\ Truthy(item.amount)
        /\ Abs(item.quantity * item.unitPrice - item.amount) > 1
       THEN <<Msg("Line item calculation error", i)>> ELSE <<>>,
   warnings |->
        (IF item.quantity <= 0 THEN <<Msg("Line item has non-positive quantity", i)>> ELSE <<>>)
     \o (IF item.unitPrice < 0 THEN <<Msg("Line item has negative unit price", i)>> ELSE <<>>)]

RECURSIVE validateLineItems(_, _)
validateLineItems(items, i) ==
  IF i > Len(items) THEN NoFindings
  ELSE Join(validateLineItem(items[i], i), validateLineItems(items, i + 1))

validateSubtotal(invoice) ==
  LET calculatedSubtotal == SumAmounts(invoice.lineItems)
      subtotalDiff == Abs(invoice.subtotal - calculatedSubtotal)
  IN IF Truthy(invoice.subtotal) /\ subtotalDiff > 1
       THEN IF RelativeExceeds(subtotalDiff, calculatedSubtotal)
              THEN [errors |-> <<Msg("Subtotal mismatch", 0)>>, warnings |-> <<>>]
              ELSE [errors |-> <<>>, warnings |-> <<Msg("Minor subtotal discrepancy", 0)>>]
       ELSE NoFindings

validateTotal(invoice) ==
  LET subtotal == IF Truthy(invoice.subtotal) THEN invoice.subtotal
                  ELSE SumAmounts(invoice.lineItems)
      expectedTotal == subtotal + OrZero(invoice.taxAmount)
                         - OrZero(invoice.discountAmount) + OrZero(invoice.shippingAmount)
      totalDiff == Abs(invoice.totalAmount - expectedTotal)
  IN IF Truthy(invoice.totalAmount) /\ totalDiff > 1
       THEN IF RelativeExceeds(totalDiff, expectedTotal)
              THEN [errors |-> <<Msg("Total mismatch", 0)>>, warnings |-> <<>>]
              ELSE [errors |-> <<>>, warnings |-> <<Msg("Minor total discrepancy", 0)>>]
       ELSE NoFindings

\* |subtotal * (taxRate / 100) - taxAmount| > 0.01, in cents
validateTax(invoice) ==
  IF Truthy(invoice.taxRate) /\ Truthy(invoice.taxAmount) /\ Truthy(invoice.subtotal)
     /\ Abs(invoice.subtotal * invoice.taxRate - 100 * invoice.taxAmount) > 100
    THEN [errors |-> <<>>, warnings |-> <<Msg("Tax calculation discrepancy", 0)>>]
    ELSE NoFindings

validateCalculations(invoice) ==
  IF invoice.lineItems = <<>> THEN NoFindings
  ELSE Join(validateLineItems(invoice.lineItems, 1),
       Join(validateSubtotal(invoice),
       Join(validateTotal(invoice), validateTax(invoice))))

\* /^[^\s@]+@[^\s@]+\.[^\s@]+$/ over the addresses the model uses
EmailRegexTest(s) ==
  s \in {"contact@abc.com", "contact@abctechnologies.com", "contact@xyzservices.com",
         "contact@globalsolutionsinc.com", "contact@techinnovations.com"}
validCurrencies == {"USD", "EUR", "GBP", "CAD", "AUD", "JPY", "CNY", "INR"}

\* now is the day new Date() gives when the check runs
validateFormats(invoice, now) ==
  [errors |->
        (IF invoice.invoiceDate = BadDate THEN <<Msg("Invalid invoice date format", 0)>> ELSE <<>>)
     \o (IF invoice.dueDate = BadDate THEN <<Msg("Invalid due date format", 0)>> ELSE <<>>),
   warnings |->
        (IF invoice.invoiceDate \notin {NullNum, BadDate} /\ invoice.invoiceDate < now - 365
           THEN <<Msg("Invoice date is more than 1 year old", 0)>> ELSE <<>>)
     \o (IF invoice.invoiceDate \notin {NullNum, BadDate} /\ invoice.invoiceDate > now + 30
           THEN <<Msg("Invoice date is in the future", 0)>> ELSE <<>>)
     \o (IF TruthyStr(invoice.vendorEmail) /\ ~EmailRegexTest(invoice.vendorEmail)
           THEN <<Msg("Invalid vendor email format", 0)>> ELSE <<>>)
     \o (IF TruthyStr(invoice.currency) /\ invoice.currency \notin validCurrencies
           THEN <<Msg("Unusual currency code", 0)>> ELSE <<>>)]

\* discountAmount / subtotal > 0.5 in floating point
DiscountOverHalf(discount, subtotal) ==
  IF subtotal > 0 THEN 2 * discount > subtotal ELSE 2 * discount < subtotal

validateBusinessRules(invoice) ==
  [errors |->
        (IF invoice.invoiceDate \notin {NullNum, BadDate}
            /\ invoice.dueDate \notin {NullNum, BadDate}
            /\ invoice.dueDate < invoice.invoiceDate
           THEN <<Msg("Due date is before invoice date", 0)>> ELSE <<>>)
     \o (IF Truthy(invoice.discountAmount) /\ Truthy(invoice.subtotal)
            /\ invoice.discountAmount > invoice.subtotal
           THEN <<Msg("Discount amount exceeds subtotal", 0)>> ELSE <<>>)
     \o (IF Truthy(invoice.totalAmount) /\ invoice.totalAmount <= 0
           THEN <<Msg("Total amount must be positive", 0)>> ELSE <<>>),
   warnings |->
        (IF Truthy(invoice.discountAmount) /\ Truthy(invoice.subtotal)
            /\ DiscountOverHalf(invoice.discountAmount, invoice.subtotal)
           THEN <<Msg("Discount is more than 50% of subtotal", 0)>> ELSE <<>>)
     \o (IF Truthy(invoice.taxRate) /\ (invoice.taxRate < 0 \/ invoice.taxRate > 50)
           THEN <<Msg("Unusual tax rate", 0)>> ELSE <<>>)
     \o (IF Truthy(invoice.totalAmount) /\ invoice.totalAmount > 100000000
           THEN <<Msg("Very high invoice amount", 0)>> ELSE <<>>)]

\* /^0+$/ over the invoice numbers the model uses
AllZerosTest(s) == s \in {"0", "000"}

detectAnomalies(invoice) ==
  [errors |-> <<>>,
   warnings |->
        (IF TruthyStr(invoice.invoiceNumber) /\ AllZerosTest(invoice.invoiceNumber)
           THEN <<Msg("Invoice number appears to be all zeros", 0)>> ELSE <<>>)
     \o (IF Truthy(invoice.totalAmount) /\ invoice.totalAmount % 10000 = 0
            /\ invoice.totalAmount > 100000
           THEN <<Msg("Total amount is a round number - may be estimated", 0)>> ELSE <<>>)
     \o (IF invoice.totalAmount # NullNum /\ invoice.totalAmount > 100000
            /\ ~Truthy(invoice.taxAmount) /\ ~Truthy(invoice.taxRate)
           THEN <<Msg("High invoice amount without tax information", 0)>> ELSE <<>>)
     \o (IF Len(invoice.lineItems) > 3
            /\ \A i \in 1..Len(invoice.lineItems) :
                 invoice.lineItems[i].quantity = invoice.lineItems[1].quantity
           THEN <<Msg("All line items have identical quantities", 0)>> ELSE <<>>)]

\* the decision rule with the warning threshold off by one
requiresManualReviewFromTwo(errors, warnings) == Len(errors) > 0 \/ Len(warnings) >= 2

\* errors.length > 0 || warnings.length > 2
requiresManualReview(errors, warnings) == Len(errors) > 0 \/ Len(warnings) > 2

validateInvoice(invoice, now) ==
  LET f == Join(validateRequiredFields(invoice),
           Join(validateCalculations(invoice),
           Join(validateFormats(invoice, now),
           Join(validateBusinessRules(invoice), detectAnomalies(invoice)))))
  IN [isValid |-> Len(f.errors) = 0,
      errors |-> f.errors,
      warnings |-> f.warnings,
      requiresManualReview |-> requiresManualReview(f.errors, f.warnings)]

\* the adjustment without the clamp
adjustConfidenceScoreUnclamped(baseConfidence, validationResult) ==
  baseConfidence - Len(validationResult.errors) * (ConfidenceOne \div 10)
                 - Len(validationResult.warnings) * (ConfidenceOne \div 50)

\* Math.max(0, Math.min(1, baseConfidence + adjustment))
adjustConfidenceScore(baseConfidence, validationResult) ==
  LET adjustment == 0 - Len(validationResult.errors) * (ConfidenceOne \div 10)
                      - Len(validationResult.warnings) * (ConfidenceOne \div 50)
      Min(a, b) == IF a < b THEN a ELSE b
      Max(a, b) == IF a > b THEN a ELSE b
  IN Max(0, Min(ConfidenceOne, baseConfidence + adjustment))

RECURSIVE SumConfidence(_)
\* lineItems.reduce((sum, item) => sum + (item.confidence || 0), 0)
SumConfidence(items) ==
  IF items = <<>> THEN 0
  ELSE OrZero(Head(items).confidence) + SumConfidence(Tail(items))

RECURSIVE SumSeq(_)
SumSeq(q) == IF q = <<>> THEN 0 ELSE Head(q) + SumSeq(Tail(q))

\* ExtractionService.calculateConfidenceScore; an empty lineItems array
\* counts as present. The quotients are whole for the values the model uses
calculateConfidenceScore(extractedData) ==
  LET presentCount ==
        (IF TruthyStr(extractedData.vendorName) THEN 1 ELSE 0)
          + (IF TruthyStr(extractedData.invoiceNumber) THEN 1 ELSE 0)
          + (IF extractedData.invoiceDate # NullNum THEN 1 ELSE 0)
          + (IF Truthy(extractedData.totalAmount) THEN 1 ELSE 0)
          + 1
      scores ==
        <<(presentCount * ConfidenceOne) \div 5>>
          \o (IF Len(extractedData.lineItems) > 0
                THEN <<SumConfidence(extractedData.lineItems) \div Len(extractedData.lineItems)>>
                ELSE <<>>)
          \o (IF Truthy(extractedData.confidenceScore)
                THEN <<extractedData.confidenceScore>> ELSE <<>>)
  IN SumSeq(scores) \div Len(scores)

\* extractedData.confidenceScore || calculateConfidenceScore(extractedData)
baseConfidence(extractedData) ==
  IF Truthy(extractedData.confidenceScore) THEN extractedData.confidenceScore
  ELSE calculateConfidenceScore(extractedData)

\* ------------------------------------------------------------------------
\* Candidate records
\* ------------------------------------------------------------------------
CleanCandidate ==
  [vendorName |-> "ABC Technologies", invoiceNumber |-> "INV-100001",
   invoiceDate |-> 0, dueDate |-> 30, vendorEmail |-> "contact@abc.com",
   currency |-> "INR",
   lineItems |-> <<[quantity |-> 2, unitPrice |-> 1000, amount |-> 2000,
                    confidence |-> 1080]>>,
   subtotal |-> 2000, taxRate |-> 18, taxAmount |-> 360,
   discountAmount |-> 0, shippingAmount |-> 0, totalAmount |-> 2360,
   confidenceScore |-> 1080]

\* the records the extractor returns in the pipeline: a clean one, one with
\* two warnings, one with three warnings, one with a line-item mismatch
SampleCandidates ==
  << CleanCandidate,
     [CleanCandidate EXCEPT !.vendorEmail = "not-an-email", !.currency = "XXX"],
     [CleanCandidate EXCEPT !.vendorEmail = "not-an-email", !.currency = "XXX",
                            !.invoiceNumber = "000"],
     [CleanCandidate EXCEPT !.lineItems =
        <<[quantity |-> 2, unitPrice |-> 1000, amount |-> 2500,
           confidence |-> 1080]>>] >>

\* extractedData before extractWithRetry has returned
NoCandidate ==
  [vendorName |-> "", invoiceNumber |-> "", invoiceDate |-> NullNum, dueDate |-> NullNum,
   vendorEmail |-> "", currency |-> "", lineItems |-> <<>>,
   subtotal |-> NullNum, taxRate |-> NullNum, taxAmount |-> NullNum,
   discountAmount |-> NullNum, shippingAmount |-> NullNum, totalAmount |-> NullNum,
   confidenceScore |-> NullNum]

\* ------------------------------------------------------------------------
\* ExtractionService
\* ------------------------------------------------------------------------
\* (n / d).toFixed(2) in cents, for d > 0: the nearest whole cent. When the
\* quotient lies exactly half way, the binary representation of the number
\* decides, so either neighbour can come out
toFixedCents(n, d, tieUp) ==
  LET q == n \div d
      r == n % d
  IN IF 2 * r < d THEN q
     ELSE IF 2 * r > d THEN q + 1
     ELSE IF tieUp THEN q + 1 ELSE q

mockVendors ==
  <<"ABC Technologies", "XYZ Services", "Global Solutions Inc", "Tech Innovations">>

\* `contact@${vendor.toLowerCase().replace(/\s+/g, '')}.com`
mockVendorEmail(vendor) ==
  CASE vendor = "ABC Technologies" -> "contact@abctechnologies.com"
    [] vendor = "XYZ Services" -> "contact@xyzservices.com"
    [] vendor = "Global Solutions Inc" -> "contact@globalsolutionsinc.com"
    [] vendor = "Tech Innovations" -> "contact@techinnovations.com"

\* lineItems of generateMockInvoiceData; draw holds the values of Math.random
generateMockLineItems(draw) ==
  LET item1Amount == draw.item1Qty * draw.item1Price
      item2Price == toFixedCents(draw.subtotal - item1Amount, draw.item2Qty, draw.priceTieUp)
  IN << [quantity |-> draw.item1Qty, unitPrice |-> draw.item1Price,
         amount |-> item1Amount, confidence |-> draw.item1Confidence],
        [quantity |-> draw.item2Qty, unitPrice |-> item2Price,
         amount |-> draw.item2Qty * item2Price, confidence |-> draw.item2Confidence] >>

generateMockInvoiceData(draw) ==
  LET subtotal == draw.subtotal
      taxRate == 18
      taxAmount == toFixedCents(subtotal * taxRate, 100, draw.taxTieUp)
      totalAmount == subtotal + taxAmount
  IN [vendorName |-> mockVendors[draw.vendor],
      vendorEmail |-> mockVendorEmail(mockVendors[draw.vendor]),
      invoiceNumber |-> "INV-100001",
      invoiceDate |-> 0, dueDate |-> 30,
      lineItems |-> generateMockLineItems(draw),
      subtotal |-> subtotal, taxRate |-> taxRate, taxAmount |-> taxAmount,
      discountAmount |-> 0, shippingAmount |-> 0, totalAmount |-> totalAmount,
      currency |-> "INR",
      confidenceScore |-> draw.confidenceScore]

\* values of Math.random in the pipeline: one call that gives a plain
\* record, and one whose second unit price comes out negative and rounded,
\* under a round total
PipelineDraws ==
  { [vendor |-> 1, subtotal |-> 500001, item1Qty |-> 1, item1Price |-> 50000,
     item2Qty |-> 1, priceTieUp |-> TRUE, taxTieUp |-> TRUE,
     item1Confidence |-> 1080, item2Confidence |-> 1200, confidenceScore |-> 1020],
    [vendor |-> 3, subtotal |-> 500000, item1Qty |-> 3, item1Price |-> 249996,
     item2Qty |-> 5, priceTieUp |-> TRUE, taxTieUp |-> TRUE,
     item1Confidence |-> 1080, item2Confidence |-> 1200, confidenceScore |-> 1140] }

\* what openai.chat.completions.create and JSON.parse can throw. The message
\* of a connection error is shortened to "Transient", that of a SyntaxError
\* of JSON.parse to "Malformed"
NoError == [kind |-> "none", status |-> NullNum, message |-> ""]
ConnectionError == [kind |-> "Transient", status |-> NullNum, message |-> "Transient"]
InternalServerError ==
  [kind |-> "Transient", status |-> 500, message |-> "500 Internal server error"]
RateLimitError == [kind |-> "RateLimited", status |-> 429, message |-> "429 Rate limit reached"]
RateLimitUsageError ==
  [kind |-> "RateLimited", status |-> 429,
   message |-> "429 Rate limit reached: Limit 30000, Used 29401, Requested 1000"]
AuthenticationError ==
  [kind |-> "AuthFailure", status |-> 401, message |-> "401 Incorrect API key provided"]
UnauthorizedError == [kind |-> "AuthFailure", status |-> NullNum, message |-> "Unauthorized"]
SyntaxError == [kind |-> "Malformed", status |-> NullNum, message |-> "Malformed"]

\* errorStr.includes('api key') || errorStr.includes('401') ||
\* errorStr.includes('authentication') || errorStr.includes('unauthorized'),
\* over the messages above
MessageLooksUnauthenticated(message) ==
  message \in {"401 Incorrect API key provided", "Unauthorized",
               "429 Rate limit reached: Limit 30000, Used 29401, Requested 1000"}

\* the test of the catch block that selects the fallback
LooksUnauthenticated(error) ==
  MessageLooksUnauthenticated(error.message) \/ error.status = 401

\* !config.openai.apiKey || config.openai.apiKey === 'your_openai_api_key_here'
ApiKeyMissing(apiKey) == apiKey \in {"", "your_openai_api_key_here"}

Returned(data) == [threw |-> FALSE, data |-> data, error |-> ""]
Thrown(error) == [threw |-> TRUE, data |-> NoCandidate, error |-> error.message]

JsonResponse(data) == [kind |-> "json", data |-> data, error |-> NoError]
TextResponse == [kind |-> "text", data |-> NoCandidate, error |-> SyntaxError]
ErrorResponse(error) == [kind |-> "error", data |-> NoCandidate, error |-> error]

\* the catch block without the fallback
extractInvoiceDataNoFallback(call) ==
  IF ApiKeyMissing(call.apiKey) THEN Returned(generateMockInvoiceData(call.draw))
  ELSE IF call.response.kind = "json" THEN Returned(call.response.data)
  ELSE Thrown(call.response.error)

\* one call of extractInvoiceData; call.response is what the API does when
\* it is asked: content that parses, content that does not, or an error
extractInvoiceData(call) ==
  IF ApiKeyMissing(call.apiKey) THEN Returned(generateMockInvoiceData(call.draw))
  ELSE IF call.response.kind = "json" THEN Returned(call.response.data)
  ELSE IF LooksUnauthenticated(call.response.error)
    THEN Returned(generateMockInvoiceData(call.draw))
  ELSE Thrown(call.response.error)

\* the values config.openai.apiKey can have
ApiKeys == {"", "your_openai_api_key_here", "sk-configured"}

\* values of Math.random over the calls of generateMockInvoiceData
MockDraws ==
  [vendor : {1, 4}, subtotal : {500000, 500002, 500025, 5500000},
   item1Qty : {1, 10}, item1Price : {50000, 250000}, item2Qty : {1, 2, 3, 5},
   priceTieUp : BOOLEAN, taxTieUp : BOOLEAN,
   item1Confidence : {1080}, item2Confidence : {1200}, confidenceScore : {1020}]

\* what the API does over the direct calls of extractInvoiceData
ServiceResponses ==
  {JsonResponse(CleanCandidate), TextResponse}
    \cup {ErrorResponse(e) : e \in {ConnectionError, InternalServerError, RateLimitError,
                                    RateLimitUsageError, AuthenticationError,
                                    UnauthorizedError}}

ExtractionCalls == [apiKey : ApiKeys, response : ServiceResponses, draw : MockDraws]

\* extractInvoiceData has not been called
NoCall ==
  [apiKey |-> "sk-configured", response |-> JsonResponse(NoCandidate),
   draw |-> CHOOSE d \in PipelineDraws : d.vendor = 1]
NoExtraction == [threw |-> FALSE, data |-> NoCandidate, error |-> "none"]

\* ------------------------------------------------------------------------
\* WebhookService
\* ------------------------------------------------------------------------
\* what axios.post meets: a response with a status, or none within the
\* timeout of 10 s, or no connection
WebhookPosts ==
  { [status |-> 200, message |-> ""],
    [status |-> 500, message |-> "Request failed with status code 500"],
    [status |-> NullNum, message |-> "timeout of 10000ms exceeded"],
    [status |-> NullNum, message |-> "connect ECONNREFUSED"] }

\* axios resolves the promise for a 2xx status and rejects it otherwise
AxiosResolves(post) == post.status # NullNum /\ post.status >= 200 /\ post.status < 300

\* the catch block rethrowing what axios rejected with
sendWebhookRethrows(post) ==
  IF AxiosResolves(post)
    THEN [threw |-> FALSE, success |-> TRUE, statusCode |-> post.status, error |-> "",
          posts |-> 1]
    ELSE [threw |-> TRUE, success |-> FALSE, statusCode |-> NullNum,
          error |-> post.message, posts |-> 1]

\* one call of sendWebhook: the request is posted once, and a rejection is
\* caught and turned into a result
sendWebhook(post) ==
  IF AxiosResolves(post)
    THEN [threw |-> FALSE, success |-> TRUE, statusCode |-> post.status, error |-> "",
          posts |-> 1]
    ELSE [threw |-> FALSE, success |-> FALSE, statusCode |-> NullNum,
          error |-> post.message, posts |-> 1]

\* return this.sendWebhook(url, {event: 'batch.completed', ...})
sendBatchCompleteWebhook(post) == sendWebhook(post)

\* sendWebhook has not been called
NoPost == [status |-> NullNum, message |-> "none"]
NoDelivery ==
  [threw |-> FALSE, success |-> FALSE, statusCode |-> NullNum, error |-> "none", posts |-> 0]

\* ------------------------------------------------------------------------
\* State
\* ------------------------------------------------------------------------
VARIABLES
  invoices,          \* the invoices table: id -> row
  upload,            \* position of the upload request that creates each id
  processingQueue,   \* ProcessingService.processingQueue
  activeProcessing,  \* ProcessingService.activeProcessing
  maxConcurrent,     \* config.processing.maxConcurrent, read from the environment at startup
  attempts,          \* the processInvoice calls, in the order they were started
  retryReqs,         \* retryInvoice calls in flight, per id and position
  patchReqs,         \* PATCH requests that read review_required and have not written yet
  enqLog,            \* history: every id pushed on the queue, in push order
  lastRetry,         \* outcome of the latest retryInvoice call that has returned or thrown
  apiKey,            \* config.openai.apiKey, read from the environment at startup
  batch,             \* the processBatch call: its position, its batch id and its jobs
  batchStatus,       \* what the latest getBatchStatus call returned
  batchCompleted,    \* a batch.completed event has been posted
  clock,             \* the day new Date() gives
  candidate,         \* input of a direct validateInvoice call
  validationResult,  \* its result
  revalidationResult, \* result of a second validateInvoice call on the same input
  confidenceScore,   \* invoice.confidenceScore as updateInvoiceWithExtraction sets it
  extractionCall,    \* input of a direct extractInvoiceData call
  extractionResult,  \* its result
  webhookCall,       \* input of a direct sendWebhook call
  webhookResult      \* its result

\* the variables of the service functions called on their own
Direct == <<clock, candidate, validationResult, revalidationResult, confidenceScore,
            extractionCall, extractionResult, webhookCall, webhookResult>>

\* the variables of the batch endpoints
Batch == <<batch, batchStatus, batchCompleted>>

vars == <<invoices, upload, processingQueue, activeProcessing, maxConcurrent, attempts,
          retryReqs, patchReqs, enqLog, lastRetry, apiKey, Batch, Direct>>

\* an id with no row in the table: never created, or deleted. A write to
\* such an id is an UPDATE that matches no row and changes nothing
NoRow == [exists |-> FALSE, status |-> "none", lastError |-> "", retryCount |-> 0,
          webhookUrl |-> FALSE, batchId |-> 0]

\* no call of validateInvoice has returned yet
NoResult == [isValid |-> FALSE, errors |-> <<>>, warnings |-> <<>>,
             requiresManualReview |-> FALSE]

\* a processInvoice call that has just been entered
NewAttempt(id) ==
  [id |-> id, pc |-> "find", calls |-> 0, delays |-> 0, error |-> "",
   cand |-> NoCandidate, webhookUrl |-> FALSE, retryCount |-> 0]

\* a processInvoice call that has returned or thrown
Finished(a) == [NewAttempt(a.id) EXCEPT !.pc = "done"]

\* the scheduler's own state, passed through the synchronous helpers
Sched ==
  [queue |-> processingQueue, active |-> activeProcessing, attempts |-> attempts,
   maxConcurrent |-> maxConcurrent, log |-> enqLog]

SetSched(s) ==
  /\ processingQueue' = s.queue
  /\ maxConcurrent' = s.maxConcurrent
  /\ enqLog' = s.log
  /\ activeProcessing' = s.active
  /\ attempts' = s.attempts

\* processInvoice up to its first await: the counter is incremented and the
\* row lookup is issued
processInvoiceEnter(s, id) ==
  [s EXCEPT !.active = @ + 1, !.attempts = Append(@, NewAttempt(id))]

\* the loop with the queue read from the wrong end
RECURSIVE processQueueFromTail(_)
processQueueFromTail(s) ==
  IF Len(s.queue) > 0 /\ s.active < s.maxConcurrent
    THEN processQueueFromTail(processInvoiceEnter(
           [s EXCEPT !.queue = SubSeq(@, 1, Len(@) - 1)], s.queue[Len(s.queue)]))
    ELSE s

\* the loop with the capacity test off by one
RECURSIVE processQueueOverAdmit(_)
processQueueOverAdmit(s) ==
  IF Len(s.queue) > 0 /\ s.active <= s.maxConcurrent
    THEN processQueueOverAdmit(processInvoiceEnter([s EXCEPT !.queue = Tail(@)], Head(s.queue)))
    ELSE s

RECURSIVE processQueue(_)
processQueue(s) ==
  IF Len(s.queue) > 0 /\ s.active < s.maxConcurrent
    THEN processQueue(processInvoiceEnter([s EXCEPT !.queue = Tail(@)], Head(s.queue)))
    ELSE s

queueInvoice(s, id) ==
  processQueue([s EXCEPT !.queue = Append(@, id), !.log = Append(@, id)])

\* the finally block without the call of processQueue
FinallyNoDrain(s, k) ==
  [s EXCEPT !.active = @ - 1, !.attempts[k] = Finished(@)]

\* the finally block of processInvoice, for the call at position k
Finally(s, k) ==
  processQueue([s EXCEPT !.active = @ - 1, !.attempts[k] = Finished(@)])

\* processBatch has not been called
NoBatch == [pc |-> "idle", batchId |-> 0, files |-> 0, webhookUrl |-> FALSE, invoices |-> <<>>,
            queued |-> 0]

\* getBatchStatus has not been called
NoStatus ==
  [batchId |-> 0, totalCount |-> 0, completedCount |-> 0, failedCount |-> 0,
   pendingCount |-> 0]

\* no batch endpoint has been called
NoBatchCalls ==
  /\ batch = NoBatch
  /\ batchStatus = NoStatus
  /\ batchCompleted = FALSE

\* no service function has been called on its own
NoDirectCalls ==
  /\ clock = 0
  /\ candidate = CleanCandidate
  /\ validationResult = NoResult
  /\ revalidationResult = NoResult
  /\ confidenceScore = NullNum
  /\ extractionCall = NoCall
  /\ extractionResult = NoExtraction
  /\ webhookCall = NoPost
  /\ webhookResult = NoDelivery

Init ==
  /\ invoices = [j \in Ids |-> NoRow]
  /\ upload = [j \in Ids |-> "new"]
  /\ processingQueue = <<>>
  /\ activeProcessing = 0
  /\ maxConcurrent \in 1..MaxConfiguredConcurrent
  /\ attempts = <<>>
  /\ retryReqs = [j \in Ids |-> [update |-> 0, enqueue |-> 0]]
  /\ patchReqs = [j \in Ids |-> 0]
  /\ enqLog = <<>>
  /\ lastRetry = "none"
  /\ apiKey \in {"", "sk-configured"}
  /\ NoBatchCalls
  /\ NoDirectCalls

\* ------------------------------------------------------------------------
\* Bookkeeping for the bounds
\* ------------------------------------------------------------------------
RECURSIVE SumOver(_, _)
SumOver(f, S) ==
  IF S = {} THEN 0
  ELSE LET x == CHOOSE y \in S : TRUE IN f[x] + SumOver(f, S \ {x})

RetriesInFlight ==
  SumOver([j \in Ids |-> retryReqs[j].update + retryReqs[j].enqueue], Ids)

\* enqueues done so far plus those that requests in flight may still do
Reserved ==
  Len(enqLog) + RetriesInFlight
    + Cardinality({j \in Ids : upload[j] = "created"})

\* ------------------------------------------------------------------------
\* POST /upload
\* ------------------------------------------------------------------------
\* Invoice.create: ids are fresh, so they are handed out in increasing order
CreateInvoice(j, hook) ==
  /\ upload[j] = "new"
  /\ \A i \in Ids : i < j => upload[i] # "new"
  /\ Reserved < MaxEnqueues
  /\ invoices' = [invoices EXCEPT ![j] =
       [exists |-> TRUE, status |-> "pending", lastError |-> "", retryCount |-> 0,
        webhookUrl |-> hook, batchId |-> 0]]
  /\ upload' = [upload EXCEPT ![j] = "created"]
  /\ UNCHANGED <<processingQueue, activeProcessing, maxConcurrent, attempts, enqLog,
                 retryReqs, patchReqs, lastRetry, apiKey, Batch, Direct>>

\* the continuation of the handler: processingService.queueInvoice(invoice)
UploadQueue(j) ==
  /\ upload[j] = "created"
  /\ SetSched(queueInvoice(Sched, j))
  /\ upload' = [upload EXCEPT ![j] = "queued"]
  /\ UNCHANGED <<invoices, retryReqs, patchReqs, lastRetry, apiKey, Batch, Direct>>

\* ------------------------------------------------------------------------
\* DELETE /:id
\* ------------------------------------------------------------------------
DeleteInvoice(j) ==
  /\ invoices[j].exists
  /\ invoices' = [invoices EXCEPT ![j] = NoRow]
  /\ UNCHANGED <<upload, processingQueue, activeProcessing, maxConcurrent, attempts,
                 enqLog, retryReqs, patchReqs, lastRetry, apiKey, Batch, Direct>>

\* ------------------------------------------------------------------------
\* POST /:id/retry  ->  retryInvoice
\* ------------------------------------------------------------------------
\* the guards with the status test left out
retryAllowedAnyStatus(row) == row.exists

\* the two guards of retryInvoice, on the row it has read
retryAllowed(row) == row.exists /\ row.status = "failed"

\* a request arrives and its Invoice.findByPk returns the row: throw, or
\* issue invoice.update({status: 'pending', lastError: null})
RetryCheck(j) ==
  /\ Reserved < MaxEnqueues
  /\ RetriesInFlight < MaxRetryInFlight
  /\ retryReqs' = [retryReqs EXCEPT
       ![j].update = IF retryAllowed(invoices[j]) THEN @ + 1 ELSE @]
  /\ lastRetry' = IF retryAllowed(invoices[j]) THEN lastRetry ELSE "error"
  /\ UNCHANGED <<invoices, upload, processingQueue, activeProcessing, maxConcurrent,
                 attempts, enqLog, patchReqs, apiKey, Batch, Direct>>

\* the update reaches the table
RetryUpdate(j) ==
  /\ retryReqs[j].update > 0
  /\ invoices' = IF invoices[j].exists
       THEN [invoices EXCEPT ![j].status = "pending", ![j].lastError = ""]
       ELSE invoices
  /\ retryReqs' = [retryReqs EXCEPT ![j].update = @ - 1, ![j].enqueue = @ + 1]
  /\ UNCHANGED <<upload, processingQueue, activeProcessing, maxConcurrent, attempts,
                 enqLog, patchReqs, lastRetry, apiKey, Batch, Direct>>

\* the continuation: this.queueInvoice(invoice)
RetryEnqueue(j) ==
  /\ retryReqs[j].enqueue > 0
  /\ SetSched(queueInvoice(Sched, j))
  /\ retryReqs' = [retryReqs EXCEPT ![j].enqueue = @ - 1]
  /\ lastRetry' = "queued"
  /\ UNCHANGED <<invoices, upload, patchReqs, apiKey, Batch, Direct>>

\* ------------------------------------------------------------------------
\* PATCH /:id
\* ------------------------------------------------------------------------
\* the handler reads the row; a row that is not review_required gets no
\* status written, and the model holds none of the other fields
PatchRead(j) ==
  /\ invoices[j].exists
  /\ invoices[j].status = "review_required"
  /\ patchReqs[j] = 0
  /\ patchReqs' = [patchReqs EXCEPT ![j] = @ + 1]
  /\ UNCHANGED <<invoices, upload, processingQueue, activeProcessing, maxConcurrent,
                 attempts, enqLog, retryReqs, lastRetry, apiKey, Batch, Direct>>

\* invoice.update(updates) with updates.status = 'completed'
PatchWrite(j) ==
  /\ patchReqs[j] > 0
  /\ invoices' = IF invoices[j].exists
       THEN [invoices EXCEPT ![j].status = "completed"]
       ELSE invoices
  /\ patchReqs' = [patchReqs EXCEPT ![j] = @ - 1]
  /\ UNCHANGED <<upload, processingQueue, activeProcessing, maxConcurrent, attempts,
                 enqLog, retryReqs, lastRetry, apiKey, Batch, Direct>>

\* ------------------------------------------------------------------------
\* POST /batch  ->  processBatch
\* ------------------------------------------------------------------------
\* the id Invoice.create gives the next row: the least one not handed out
NextId == CHOOSE j \in Ids : upload[j] = "new" /\ \A i \in Ids : i < j => upload[i] # "new"

\* the batch id of uuidv4(); the model has one processBatch call
FreshBatchId == 1

\* the handler has n files and calls processBatch: the batch id is drawn
\* and the first Invoice.create is issued
BatchSubmit(n, hook) ==
  /\ batch.pc = "idle"
  /\ n <= Cardinality({j \in Ids : upload[j] = "new"})
  /\ batch' = [NoBatch EXCEPT !.pc = "create", !.batchId = FreshBatchId, !.files = n,
                              !.webhookUrl = hook]
  /\ UNCHANGED <<invoices, upload, processingQueue, activeProcessing, maxConcurrent, attempts,
                 enqLog, retryReqs, patchReqs, lastRetry, apiKey, batchStatus,
                 batchCompleted, Direct>>

\* the loop over the created invoices, resumed: the next one is queued, or
\* none is left and processBatch returns
processBatchQueue(b) ==
  IF b.queued < Len(b.invoices) THEN [b EXCEPT !.queued = @ + 1]
  ELSE [b EXCEPT !.pc = "returned"]

\* Invoice.create has returned row j: it is pushed on the list, and the
\* next create is issued or, after the last one, the second loop is entered
processBatchCreated(b, j) ==
  LET c == [b EXCEPT !.invoices = Append(@, j)]
  IN IF Len(c.invoices) < c.files THEN c
     ELSE [c EXCEPT !.pc = "queue"]

\* an Invoice.create of the first loop returns, or throws out of
\* processBatch, and the handler answers 500
BatchCreate(ok) ==
  /\ batch.pc = "create"
  /\ IF ok
       THEN /\ invoices' = [invoices EXCEPT ![NextId] =
                 [exists |-> TRUE, status |-> "pending", lastError |-> "", retryCount |-> 0,
                  webhookUrl |-> batch.webhookUrl, batchId |-> batch.batchId]]
            /\ upload' = [upload EXCEPT ![NextId] = "batch"]
            /\ batch' = processBatchCreated(batch, NextId)
       ELSE /\ batch' = [batch EXCEPT !.pc = "thrown"]
            /\ UNCHANGED <<invoices, upload>>
  /\ UNCHANGED <<processingQueue, activeProcessing, maxConcurrent, attempts, enqLog,
                 retryReqs, patchReqs, lastRetry, apiKey, batchStatus, batchCompleted,
                 Direct>>

\* one pass of the second loop: await this.queueInvoice(invoice)
BatchQueue ==
  /\ batch.pc = "queue"
  /\ batch' = processBatchQueue(batch)
  /\ IF batch.queued < Len(batch.invoices)
       THEN SetSched(queueInvoice(Sched, batch.invoices[batch.queued + 1]))
       ELSE UNCHANGED <<processingQueue, activeProcessing, maxConcurrent, attempts, enqLog>>
  /\ UNCHANGED <<invoices, upload, retryReqs, patchReqs, lastRetry, apiKey, batchStatus,
                 batchCompleted, Direct>>

\* ------------------------------------------------------------------------
\* GET /batch/:batchId  ->  getBatchStatus
\* ------------------------------------------------------------------------
\* invoices.filter(inv => statuses.includes(inv.status)).length
CountStatus(table, rows, statuses) ==
  Cardinality({j \in rows : table[j].status \in statuses})

getBatchStatus(table, batchId) ==
  LET found == {j \in Ids : table[j].exists /\ table[j].batchId = batchId}
  IN [batchId |-> batchId,
      totalCount |-> Cardinality(found),
      completedCount |-> CountStatus(table, found, {"completed"}),
      failedCount |-> CountStatus(table, found, {"failed"}),
      pendingCount |-> CountStatus(table, found, {"pending", "processing"})]

\* the batch ids asked for: that of the batch, and one no job carries
BatchIds == {FreshBatchId, FreshBatchId + 1}

\* Invoice.findAll returns and the counts are taken
GetBatchStatus(batchId) ==
  /\ batchStatus' = getBatchStatus(invoices, batchId)
  /\ UNCHANGED <<invoices, upload, processingQueue, activeProcessing, maxConcurrent, attempts,
                 enqLog, retryReqs, patchReqs, lastRetry, apiKey, batch, batchCompleted,
                 Direct>>

\* ------------------------------------------------------------------------
\* processInvoice, one action per await
\* ------------------------------------------------------------------------
Others == <<upload, retryReqs, patchReqs, lastRetry, apiKey, Batch, Direct>>

\* the attempt at position k moves on without touching the scheduler
Goto(k, a) ==
  /\ attempts' = [attempts EXCEPT ![k] = a]
  /\ UNCHANGED <<processingQueue, activeProcessing, maxConcurrent, enqLog>>

\* the exception handler is entered: Invoice.findByPk is issued again
Throw(a, message) == [a EXCEPT !.pc = "catchFind", !.error = message]

\* Step 6 of processInvoice
finalStatus(result) ==
  IF Len(result.errors) > 0 THEN "review_required" ELSE "completed"

\* what a call to the database does: it answers (ok) or it throws. The
\* message of what it throws is shortened to "Database error"
DbError == "Database error"

\* the database answering every call
DbUp == {TRUE}

\* the database answering or failing
DbAny == BOOLEAN

\* Invoice.findByPk returns or throws
Find(k, ok) ==
  /\ attempts[k].pc = "find"
  /\ LET a == attempts[k]
         row == invoices[a.id]
     IN IF ~ok THEN Goto(k, Throw(a, DbError))
        ELSE IF row.exists
          THEN Goto(k, [a EXCEPT !.pc = "mark", !.webhookUrl = row.webhookUrl])
          ELSE Goto(k, Throw(a, "Invoice not found"))
  /\ UNCHANGED invoices
  /\ UNCHANGED Others

\* invoice.update({status: 'processing'}) reaches the table, or throws
\* and writes nothing
Mark(k, ok) ==
  /\ attempts[k].pc = "mark"
  /\ LET a == attempts[k]
     IN /\ invoices' = IF ok /\ invoices[a.id].exists
             THEN [invoices EXCEPT ![a.id].status = "processing"]
             ELSE invoices
        /\ IF ok THEN Goto(k, [a EXCEPT !.pc = "doc"]) ELSE Goto(k, Throw(a, DbError))
  /\ UNCHANGED Others

\* documentService.processDocument returns or throws
Doc(k, ok) ==
  /\ attempts[k].pc = "doc"
  /\ LET a == attempts[k]
     IN IF ok THEN Goto(k, [a EXCEPT !.pc = "extract"])
              ELSE Goto(k, Throw(a, "Document processing failed"))
  /\ UNCHANGED invoices
  /\ UNCHANGED Others

\* the loop with one pass too few
extractWithRetryShort(a, r) ==
  LET b == [a EXCEPT !.calls = @ + 1]
  IN IF ~r.threw THEN [b EXCEPT !.pc = "save", !.cand = r.data]
     ELSE IF b.calls < RetryAttempts - 1 THEN [b EXCEPT !.delays = @ + 1]
     ELSE Throw(b, r.error)

\* one pass of the loop of extractWithRetry, r being what extractInvoiceData
\* did: after a throw, whatever the error, the loop waits and goes round
\* again unless this was pass number retryAttempts, and then throws the
\* error of that last pass
extractWithRetry(a, r) ==
  LET b == [a EXCEPT !.calls = @ + 1]
  IN IF ~r.threw THEN [b EXCEPT !.pc = "save", !.cand = r.data]
     ELSE IF b.calls < RetryAttempts THEN [b EXCEPT !.delays = @ + 1]
     ELSE Throw(b, r.error)

\* what the API does in the pipeline: one of the sample records, content
\* that does not parse, a connection error, a rejected credential
PipelineResponses ==
  {JsonResponse(SampleCandidates[i]) : i \in 1..Len(SampleCandidates)}
    \cup {TextResponse, ErrorResponse(ConnectionError), ErrorResponse(AuthenticationError)}

Extract(k, response, draw) ==
  /\ attempts[k].pc = "extract"
  /\ Goto(k, extractWithRetry(attempts[k],
             extractInvoiceData([apiKey |-> apiKey, response |-> response, draw |-> draw])))
  /\ UNCHANGED invoices
  /\ UNCHANGED Others

\* the end of the try block, with no webhook left to send
Return(k) == SetSched(Finally(Sched, k))

\* invoice.save() reaches the table, or throws and writes nothing; the
\* extracted data is not read again after it
Save(k, ok) ==
  /\ attempts[k].pc = "save"
  /\ LET a == attempts[k]
         result == validateInvoice(a.cand, clock)
     IN /\ invoices' = IF ok /\ invoices[a.id].exists
             THEN [invoices EXCEPT ![a.id].status = finalStatus(result)]
             ELSE invoices
        /\ IF ~ok THEN Goto(k, Throw([a EXCEPT !.cand = NoCandidate], DbError))
           ELSE IF a.webhookUrl
             THEN Goto(k, [a EXCEPT !.pc = "hook", !.cand = NoCandidate])
           ELSE Return(k)
  /\ UNCHANGED Others

\* the success path taking a failed delivery for an exception
HookFailureRaises(k, post) ==
  /\ attempts[k].pc = "hook"
  /\ LET r == sendWebhook(post)
     IN IF r.threw \/ ~r.success THEN Goto(k, Throw(attempts[k], r.error))
        ELSE Goto(k, [attempts[k] EXCEPT !.pc = "hookUpdate"])
  /\ UNCHANGED invoices
  /\ UNCHANGED Others

\* webhookService.sendWebhook has finished; its result is not looked at
Hook(k, post) ==
  /\ attempts[k].pc = "hook"
  /\ LET r == sendWebhook(post)
     IN IF r.threw THEN Goto(k, Throw(attempts[k], r.error))
        ELSE Goto(k, [attempts[k] EXCEPT !.pc = "hookUpdate"])
  /\ UNCHANGED invoices
  /\ UNCHANGED Others

\* invoice.update({webhookSent: true}) returns, or throws inside the try
\* block
HookUpdate(k, ok) ==
  /\ attempts[k].pc = "hookUpdate"
  /\ IF ok THEN Return(k) ELSE Goto(k, Throw(attempts[k], DbError))
  /\ UNCHANGED invoices
  /\ UNCHANGED Others

\* catch: Invoice.findByPk returns, or throws out of the catch block, and
\* then the finally block runs
CatchFind(k, ok) ==
  /\ attempts[k].pc = "catchFind"
  /\ LET a == attempts[k]
         row == invoices[a.id]
     IN IF ok /\ row.exists
          THEN Goto(k, [a EXCEPT !.pc = "catchUpdate", !.retryCount = row.retryCount,
                                 !.webhookUrl = row.webhookUrl])
          ELSE Return(k)
  /\ UNCHANGED invoices
  /\ UNCHANGED Others

\* the handler with the counter decremented after the catch block, not in a
\* finally block: an update that throws leaves the call without it
CatchUpdateNoFinally(k, ok) ==
  /\ attempts[k].pc = "catchUpdate"
  /\ LET a == attempts[k]
     IN /\ invoices' = IF ok /\ invoices[a.id].exists
             THEN [invoices EXCEPT ![a.id].status = "failed",
                                   ![a.id].lastError = a.error,
                                   ![a.id].retryCount = a.retryCount + 1]
             ELSE invoices
        /\ IF ~ok THEN Goto(k, Finished(a))
           ELSE IF a.webhookUrl THEN Goto(k, [a EXCEPT !.pc = "catchHook"])
           ELSE Return(k)
  /\ UNCHANGED Others

\* catch: invoice.update({status: 'failed', ...}) reaches the table, or
\* throws out of the catch block and writes nothing, and then the finally
\* block runs
CatchUpdate(k, ok) ==
  /\ attempts[k].pc = "catchUpdate"
  /\ LET a == attempts[k]
     IN /\ invoices' = IF ok /\ invoices[a.id].exists
             THEN [invoices EXCEPT ![a.id].status = "failed",
                                   ![a.id].lastError = a.error,
                                   ![a.id].retryCount = a.retryCount + 1]
             ELSE invoices
        /\ IF ok /\ a.webhookUrl THEN Goto(k, [a EXCEPT !.pc = "catchHook"]) ELSE Return(k)
  /\ UNCHANGED Others

\* catch: sendWebhook has finished; the error of the attempt is rethrown,
\* or the one sendWebhook threw, and the finally block runs
CatchHook(k, post) ==
  /\ attempts[k].pc = "catchHook"
  /\ sendWebhook(post).posts = 1
  /\ Return(k)
  /\ UNCHANGED invoices
  /\ UNCHANGED Others

Slots == 1..Len(attempts)

Next ==
  \/ \E j \in Ids, hook \in BOOLEAN : CreateInvoice(j, hook)
  \/ \E j \in Ids : UploadQueue(j)
  \/ \E j \in Ids : DeleteInvoice(j)
  \/ \E j \in Ids : RetryCheck(j)
  \/ \E j \in Ids : RetryUpdate(j)
  \/ \E j \in Ids : RetryEnqueue(j)
  \/ \E j \in Ids : PatchRead(j)
  \/ \E j \in Ids : PatchWrite(j)
  \/ \E k \in Slots, ok \in DbUp : Find(k, ok)
  \/ \E k \in Slots, ok \in DbUp : Mark(k, ok)
  \/ \E k \in Slots, ok \in BOOLEAN : Doc(k, ok)
  \/ \E k \in Slots, response \in PipelineResponses, draw \in PipelineDraws :
       Extract(k, response, draw)
  \/ \E k \in Slots, ok \in DbUp : Save(k, ok)
  \/ \E k \in Slots, post \in WebhookPosts : Hook(k, post)
  \/ \E k \in Slots, ok \in DbUp : HookUpdate(k, ok)
  \/ \E k \in Slots, ok \in DbUp : CatchFind(k, ok)
  \/ \E k \in Slots, ok \in DbUp : CatchUpdate(k, ok)
  \/ \E k \in Slots, post \in WebhookPosts : CatchHook(k, post)

\* the pipeline with a database that answers every call
Spec == Init /\ [][Next]_vars

TypeOK ==
  /\ activeProcessing \in Int
  /\ Len(enqLog) <= MaxEnqueues

\* ------------------------------------------------------------------------
\* A batch submitted to a pipeline whose database can fail
\* ------------------------------------------------------------------------
InitBatch == Init

\* the steps of the processInvoice call at position k
AttemptStep(k) ==
  /\ k \in Slots
  /\ \/ \E ok \in DbAny : Find(k, ok)
     \/ \E ok \in DbAny : Mark(k, ok)
     \/ \E ok \in BOOLEAN : Doc(k, ok)
     \/ \E response \in PipelineResponses, draw \in PipelineDraws : Extract(k, response, draw)
     \/ \E ok \in DbAny : Save(k, ok)
     \/ \E post \in WebhookPosts : Hook(k, post)
     \/ \E ok \in DbAny : HookUpdate(k, ok)
     \/ \E ok \in DbAny : CatchFind(k, ok)
     \/ \E ok \in DbAny : CatchUpdate(k, ok)
     \/ \E post \in WebhookPosts : CatchHook(k, post)

\* the steps of the processBatch call once it has been made
BatchStep == (\E ok \in DbAny : BatchCreate(ok)) \/ BatchQueue

\* a batch is submitted and processed
NextBatchCalls ==
  \/ \E n \in 1..NumJobs, hook \in BOOLEAN : BatchSubmit(n, hook)
  \/ \E ok \in DbAny : BatchCreate(ok)
  \/ BatchQueue
  \/ \E k \in Slots, ok \in DbAny : Find(k, ok)
  \/ \E k \in Slots, ok \in DbAny : Mark(k, ok)
  \/ \E k \in Slots, ok \in BOOLEAN : Doc(k, ok)
  \/ \E k \in Slots, response \in PipelineResponses, draw \in PipelineDraws :
       Extract(k, response, draw)
  \/ \E k \in Slots, ok \in DbAny : Save(k, ok)
  \/ \E k \in Slots, post \in WebhookPosts : Hook(k, post)
  \/ \E k \in Slots, ok \in DbAny : HookUpdate(k, ok)
  \/ \E k \in Slots, ok \in DbAny : CatchFind(k, ok)
  \/ \E k \in Slots, ok \in DbAny : CatchUpdate(k, ok)
  \/ \E k \in Slots, post \in WebhookPosts : CatchHook(k, post)

\* the same, with clients asking for the batch status and deleting jobs
NextBatch ==
  \/ NextBatchCalls
  \/ \E batchId \in BatchIds : GetBatchStatus(batchId)
  \/ \E j \in Ids : DeleteInvoice(j)

SpecBatch == InitBatch /\ [][NextBatch]_vars

\* every call the program is waiting for returns or throws in the end: the
\* event loop resumes the processBatch call and each processInvoice call
SpecBatchLive ==
  /\ InitBatch
  /\ [][NextBatchCalls]_vars
  /\ WF_vars(BatchStep)
  /\ \A k \in 1..NumJobs : WF_vars(AttemptStep(k))

\* ------------------------------------------------------------------------
\* validateInvoice called on its own, over a bounded set of candidates
\* ------------------------------------------------------------------------
FormatCandidates ==
  { [CleanCandidate EXCEPT
       !.vendorName = vn, !.invoiceNumber = num, !.vendorEmail = em, !.currency = cur,
       !.invoiceDate = d, !.totalAmount = tot,
       !.lineItems = <<[quantity |-> 2, unitPrice |-> 1000, amount |-> amt,
                        confidence |-> 1080]>>] :
      vn \in {"", "ABC Technologies"}, num \in {"INV-100001", "000"},
      em \in {"contact@abc.com", "not-an-email"}, cur \in {"INR", "XXX"},
      d \in {0, -400}, tot \in {2360, 2400, 0, NullNum}, amt \in {2000, 2001, 2500} }

\* records with up to six errors, under reported confidences from below 0
\* to above 1, and none
ScoreCandidates ==
  { [CleanCandidate EXCEPT
       !.confidenceScore = c, !.vendorName = vn, !.invoiceNumber = num, !.dueDate = due,
       !.totalAmount = tot,
       !.lineItems = <<[quantity |-> 2, unitPrice |-> 1000, amount |-> amt,
                        confidence |-> 1080]>>] :
      c \in {NullNum, 0, -120, 600, 1200, 1500}, vn \in {"", "ABC Technologies"},
      num \in {"", "INV-100001"}, due \in {30, -10}, tot \in {2360, NullNum},
      amt \in {2000, 2500} }

\* records with and without line items whose total is right, off by one
\* cent, off by less than 5% and off by more
TotalCandidates ==
  { [CleanCandidate EXCEPT
       !.lineItems = items, !.taxAmount = tax, !.discountAmount = disc,
       !.shippingAmount = ship, !.totalAmount = 2000 + tax - disc + ship + off] :
      items \in {<<>>, CleanCandidate.lineItems}, tax \in {360, NullNum},
      disc \in {0, 100}, ship \in {0, 50}, off \in {0, 1, -1, 2, 40, 640, -640} }

\* records with one or two line items over quantities, prices and amounts
\* that include zero
LineItemCandidates ==
  { [CleanCandidate EXCEPT
       !.lineItems = front \o <<[quantity |-> q, unitPrice |-> p, amount |-> amt,
                                 confidence |-> 1080]>>] :
      front \in {<<>>, CleanCandidate.lineItems},
      q \in {0, 2}, p \in {0, 1000}, amt \in {0, 1, 2, 2000, 2001, 2002, 2500} }

\* records with one line item whose amount is positive, zero or negative
\* (a credit), under subtotals equal to it, off by one cent, off by less
\* than 5% and off by more, zero included
SubtotalCandidates ==
  { [CleanCandidate EXCEPT
       !.lineItems = <<[quantity |-> 1, unitPrice |-> amt, amount |-> amt,
                        confidence |-> 1080]>>,
       !.subtotal = amt + off] :
      amt \in {2000, 0, -2000}, off \in {0, 1, -1, 2, -2, 100, -100, 101, 2000, -2000} }

\* records with a total of zero and below, with and without line items
NonPositiveCandidates ==
  { [CleanCandidate EXCEPT !.lineItems = items, !.totalAmount = tot] :
      items \in {<<>>, CleanCandidate.lineItems}, tot \in {0, -1, -2360} }

Candidates ==
  FormatCandidates \cup ScoreCandidates \cup TotalCandidates \cup LineItemCandidates
    \cup SubtotalCandidates \cup NonPositiveCandidates

InitValidate ==
  /\ invoices = [j \in Ids |-> NoRow]
  /\ upload = [j \in Ids |-> "new"]
  /\ processingQueue = <<>>
  /\ activeProcessing = 0
  /\ maxConcurrent = MaxConfiguredConcurrent
  /\ attempts = <<>>
  /\ retryReqs = [j \in Ids |-> [update |-> 0, enqueue |-> 0]]
  /\ patchReqs = [j \in Ids |-> 0]
  /\ enqLog = <<>>
  /\ lastRetry = "none"
  /\ apiKey = "sk-configured"
  /\ NoBatchCalls
  /\ clock = 0
  /\ candidate \in Candidates
  /\ validationResult = NoResult
  /\ revalidationResult = NoResult
  /\ confidenceScore = NullNum
  /\ extractionCall = NoCall
  /\ extractionResult = NoExtraction
  /\ webhookCall = NoPost
  /\ webhookResult = NoDelivery

\* the pipeline, which the direct calls leave alone
Pipeline ==
  <<invoices, upload, processingQueue, activeProcessing, maxConcurrent, attempts,
    retryReqs, patchReqs, enqLog, lastRetry, apiKey, Batch>>

Validate ==
  /\ validationResult = NoResult
  /\ validationResult' = validateInvoice(candidate, clock)
  /\ UNCHANGED <<Pipeline, clock, candidate, revalidationResult, confidenceScore,
                 extractionCall, extractionResult, webhookCall, webhookResult>>

\* the last step of updateInvoiceWithExtraction, on the validation result
UpdateInvoiceWithExtraction ==
  /\ validationResult # NoResult
  /\ confidenceScore = NullNum
  /\ confidenceScore' = adjustConfidenceScore(baseConfidence(candidate), validationResult)
  /\ UNCHANGED <<Pipeline, clock, candidate, validationResult, revalidationResult,
                 extractionCall, extractionResult, webhookCall, webhookResult>>

NextValidate == Validate \/ UpdateInvoiceWithExtraction

SpecValidate == InitValidate /\ [][NextValidate]_vars

\* ------------------------------------------------------------------------
\* validateInvoice called twice on one candidate, on the same day or later
\* ------------------------------------------------------------------------
MaxClock == 2

\* records with dates on both sides of the two limits of the date range,
\* with no warning and with two warnings from other fields
DateCandidates ==
  { [CleanCandidate EXCEPT
       !.invoiceDate = d, !.dueDate = IF d \in {NullNum, BadDate} THEN 30 ELSE d + 30,
       !.vendorEmail = em, !.currency = cur] :
      d \in {-366, -365, -364, 0, 30, 31, 32, NullNum, BadDate},
      em \in {"contact@abc.com", "not-an-email"}, cur \in {"INR", "XXX"} }

InitRevalidate ==
  /\ invoices = [j \in Ids |-> NoRow]
  /\ upload = [j \in Ids |-> "new"]
  /\ processingQueue = <<>>
  /\ activeProcessing = 0
  /\ maxConcurrent = MaxConfiguredConcurrent
  /\ attempts = <<>>
  /\ retryReqs = [j \in Ids |-> [update |-> 0, enqueue |-> 0]]
  /\ patchReqs = [j \in Ids |-> 0]
  /\ enqLog = <<>>
  /\ lastRetry = "none"
  /\ apiKey = "sk-configured"
  /\ NoBatchCalls
  /\ clock = 0
  /\ candidate \in DateCandidates
  /\ validationResult = NoResult
  /\ revalidationResult = NoResult
  /\ confidenceScore = NullNum
  /\ extractionCall = NoCall
  /\ extractionResult = NoExtraction
  /\ webhookCall = NoPost
  /\ webhookResult = NoDelivery

\* a day passes
Tick ==
  /\ clock < MaxClock
  /\ clock' = clock + 1
  /\ UNCHANGED <<Pipeline, candidate, validationResult, revalidationResult, confidenceScore,
                 extractionCall, extractionResult, webhookCall, webhookResult>>

\* the second call, on the record the first call was given
Revalidate ==
  /\ validationResult # NoResult
  /\ revalidationResult = NoResult
  /\ revalidationResult' = validateInvoice(candidate, clock)
  /\ UNCHANGED <<Pipeline, clock, candidate, validationResult, confidenceScore,
                 extractionCall, extractionResult, webhookCall, webhookResult>>

NextRevalidate == Validate \/ Tick \/ Revalidate

SpecRevalidate == InitRevalidate /\ [][NextRevalidate]_vars

\* ------------------------------------------------------------------------
\* extractInvoiceData and sendWebhook called on their own
\* ------------------------------------------------------------------------
InitServices ==
  /\ invoices = [j \in Ids |-> NoRow]
  /\ upload = [j \in Ids |-> "new"]
  /\ processingQueue = <<>>
  /\ activeProcessing = 0
  /\ maxConcurrent = MaxConfiguredConcurrent
  /\ attempts = <<>>
  /\ retryReqs = [j \in Ids |-> [update |-> 0, enqueue |-> 0]]
  /\ patchReqs = [j \in Ids |-> 0]
  /\ enqLog = <<>>
  /\ lastRetry = "none"
  /\ NoBatchCalls
  /\ clock = 0
  /\ candidate = CleanCandidate
  /\ validationResult = NoResult
  /\ revalidationResult = NoResult
  /\ confidenceScore = NullNum
  /\ extractionCall \in ExtractionCalls
  /\ apiKey = extractionCall.apiKey
  /\ extractionResult = NoExtraction
  /\ webhookCall \in WebhookPosts
  /\ webhookResult = NoDelivery

ExtractInvoiceData ==
  /\ extractionResult = NoExtraction
  /\ extractionResult' = extractInvoiceData(extractionCall)
  /\ UNCHANGED <<Pipeline, clock, candidate, validationResult, revalidationResult,
                 confidenceScore, extractionCall, webhookCall, webhookResult>>

SendWebhook ==
  /\ webhookResult = NoDelivery
  /\ webhookResult' = sendWebhook(webhookCall)
  /\ UNCHANGED <<Pipeline, clock, candidate, validationResult, revalidationResult,
                 confidenceScore, extractionCall, extractionResult, webhookCall>>

\* nothing in the pipeline calls sendBatchCompleteWebhook; this is the
\* call on its own
SendBatchCompleteWebhook ==
  /\ webhookResult = NoDelivery
  /\ webhookResult' = sendBatchCompleteWebhook(webhookCall)
  /\ batchCompleted' = TRUE
  /\ UNCHANGED <<invoices, upload, processingQueue, activeProcessing, maxConcurrent, attempts,
                 retryReqs, patchReqs, enqLog, lastRetry, apiKey, batch, batchStatus, clock,
                 candidate, validationResult, revalidationResult, confidenceScore,
                 extractionCall, extractionResult, webhookCall>>

NextServices == ExtractInvoiceData \/ SendWebhook \/ SendBatchCompleteWebhook

SpecServices == InitServices /\ [][NextServices]_vars

\* ------------------------------------------------------------------------
\* Properties
\* ------------------------------------------------------------------------
InFlight(k) == attempts[k].pc # "done"

InFlightFor(j) == {k \in Slots : InFlight(k) /\ attempts[k].id = j}

\* the attempt at position k leaves position pc in this step
Leaves(k, pc) == attempts[k].pc = pc /\ attempts'[k].pc # pc

\* C1: the in-flight counter, and the number of processInvoice calls that
\* have not finished, never exceed the configured maxConcurrent
C1_ConcurrencyBound ==
  /\ activeProcessing <= maxConcurrent
  /\ Cardinality({k \in Slots : InFlight(k)}) <= maxConcurrent

C1_Witness ==
  /\ maxConcurrent = 2
  /\ activeProcessing = 2
  /\ processingQueue # <<>>

\* a processInvoice call finishes in this step: if the queue is not empty its
\* head is admitted in the same step, and nothing else is
C2_Completion ==
  \A k \in Slots :
    (InFlight(k) /\ attempts'[k].pc = "done") =>
      IF processingQueue # <<>>
        THEN /\ processingQueue' = Tail(processingQueue)
             /\ Len(attempts') = Len(attempts) + 1
             /\ attempts'[Len(attempts')] = NewAttempt(Head(processingQueue))
             /\ activeProcessing' = activeProcessing
        ELSE /\ Len(attempts') = Len(attempts)
             /\ activeProcessing' = activeProcessing - 1

\* C2: the admission loop is work-conserving: a non-empty queue means the
\* in-flight count equals maxConcurrent, and each completion admits exactly
\* one queued job in the same step
C2_WorkConserving ==
  /\ [](processingQueue # <<>> => activeProcessing = maxConcurrent)
  /\ [][C2_Completion]_vars

C2_Witness ==
  /\ maxConcurrent = 2
  /\ activeProcessing = 2
  /\ Len(processingQueue) = 1
  /\ \E k \in Slots : attempts[k].pc \in {"hookUpdate", "catchHook"}

\* C3: jobs are admitted in the order they were enqueued: the k-th
\* processInvoice call started is for the k-th id pushed on the queue
C3_FifoAdmission ==
  /\ Len(attempts) <= Len(enqLog)
  /\ \A k \in Slots : attempts[k].id = enqLog[k]

C3_Witness ==
  /\ Len(processingQueue) = 2
  /\ processingQueue[1] # processingQueue[2]

C4_Calls ==
  \A k \in Slots :
    /\ attempts[k].calls <= RetryAttempts
    /\ attempts[k].error = "Transient" => attempts[k].calls = RetryAttempts

C4_Step ==
  \A k \in Slots :
    /\ Leaves(k, "extract") =>
         \/ attempts'[k].pc = "save"
         \/ attempts'[k].pc = "catchFind" /\ attempts'[k].calls = RetryAttempts
    /\ (Leaves(k, "catchUpdate") /\ attempts[k].error = "Transient"
          /\ invoices[attempts[k].id].exists) =>
         /\ invoices'[attempts[k].id].status = "failed"
         /\ invoices'[attempts[k].id].lastError = "Transient"

C5_StatusFollowsDecisionRule ==
  [][\A k \in Slots :
       (Leaves(k, "save") /\ invoices[attempts[k].id].exists) =>
         invoices'[attempts[k].id].status =
           IF validateInvoice(attempts[k].cand, clock).requiresManualReview
             THEN "review_required" ELSE "completed"]_vars

\* C6: validateInvoice returns requiresManualReview equal to
\* (number of errors > 0 or number of warnings > 2)
C6_DecisionRule ==
  validationResult # NoResult =>
    /\ validationResult.errors = validateInvoice(candidate, clock).errors
    /\ validationResult.warnings = validateInvoice(candidate, clock).warnings
    /\ validationResult.requiresManualReview =
         (Len(validationResult.errors) > 0 \/ Len(validationResult.warnings) > 2)

C6_Witness ==
  /\ validationResult # NoResult
  /\ Len(validationResult.errors) = 0
  /\ Len(validationResult.warnings) = 2
  /\ ~validationResult.requiresManualReview

LegalTransitions ==
  { <<"pending", "processing">>, <<"processing", "completed">>,
    <<"processing", "review_required">>, <<"processing", "failed">>,
    <<"failed", "pending">> }

\* C7: the status of a job changes only along pending -> processing,
\* processing -> completed | review_required | failed, failed -> pending
C7_LegalTransitions ==
  [][\A j \in Ids :
       (invoices[j].exists /\ invoices'[j].exists
          /\ invoices'[j].status # invoices[j].status) =>
         <<invoices[j].status, invoices'[j].status>> \in LegalTransitions]_vars

\* C8: at most one processing attempt is in flight for a job id, and the id
\* is not in the queue while an attempt for it is in flight
C8_ExclusiveAttempt ==
  \A j \in Ids :
    /\ Cardinality(InFlightFor(j)) <= 1
    /\ InFlightFor(j) # {} =>
         \A i \in 1..Len(processingQueue) : processingQueue[i] # j

RetriesFor(j) == retryReqs[j].update + retryReqs[j].enqueue

C9_Step ==
  /\ \A j \in Ids :
       ~(invoices[j].exists /\ invoices[j].status = "failed") =>
         /\ RetriesFor(j)' <= RetriesFor(j)
         /\ RetriesFor(j)' = RetriesFor(j) =>
              (retryReqs'[j] = retryReqs[j] \/ retryReqs'[j].update < retryReqs[j].update)
  /\ (lastRetry' = "error" /\ lastRetry # "error") =>
       UNCHANGED <<invoices, processingQueue, activeProcessing, attempts, enqLog,
                   retryReqs>>

\* C9: retryInvoice on a job that is not failed, or on an unknown id, ends
\* with an error: no update is issued, and the rows, the queue and the
\* counter are left as they were
C9_RetryRejected == [][C9_Step]_vars

C9_Witness ==
  /\ lastRetry = "error"
  /\ \E j \in Ids : invoices[j].exists /\ invoices[j].status = "completed"
  /\ \A j \in Ids : invoices[j].status # "failed"

C10_Step ==
  /\ \A j \in Ids :
       /\ (retryReqs'[j].update < retryReqs[j].update /\ invoices[j].exists) =>
            /\ invoices'[j].status = "pending"
            /\ invoices'[j].lastError = ""
       /\ retryReqs'[j].enqueue < retryReqs[j].enqueue => enqLog' = Append(enqLog, j)
  /\ \A k \in Slots :
       /\ (Leaves(k, "mark") /\ invoices[attempts[k].id].exists) =>
            /\ invoices[attempts[k].id].status = "pending"
            /\ invoices'[attempts[k].id].status = "processing"
       /\ ((Leaves(k, "save") \/ Leaves(k, "catchUpdate"))
             /\ invoices[attempts[k].id].exists) =>
            /\ invoices[attempts[k].id].status = "processing"
            /\ invoices'[attempts[k].id].status \in {"completed", "review_required", "failed"}

\* C10: retryInvoice on a failed job writes pending, clears lastError and
\* appends the id to the queue, and the attempt that follows takes the job
\* from pending to processing to a terminal status
C10_RetryRuns == [][C10_Step]_vars

\* C11: an attempt that ends with the error of an unparsable extractor
\* output has made exactly one extraction call and has waited for no
\* backoff delay
C11_MalformedEndsLoop ==
  \A k \in Slots :
    attempts[k].error = SyntaxError.message =>
      attempts[k].calls = 1 /\ attempts[k].delays = 0

\* the synthetic records of the pipeline
PipelineMocks == {generateMockInvoiceData(draw) : draw \in PipelineDraws}

\* the extractor is unauthenticated in this call
Unauthenticated(call) ==
  ApiKeyMissing(call.apiKey) \/ call.response.error.kind = "AuthFailure"

\* whatever the API does in the call, an unauthenticated one returns a
\* synthetic record
C12_Calls ==
  \A response \in PipelineResponses, draw \in PipelineDraws :
    LET call == [apiKey |-> apiKey, response |-> response, draw |-> draw]
    IN Unauthenticated(call) =>
         extractInvoiceData(call) = Returned(generateMockInvoiceData(draw))

C12_Step ==
  \A k \in Slots :
    /\ (attempts[k].pc = "extract" /\ attempts'[k] # attempts[k]) => C12_Calls
    /\ attempts'[k].error # AuthenticationError.message
    /\ (Leaves(k, "extract") /\ ApiKeyMissing(apiKey)) =>
         /\ attempts'[k].pc = "save"
         /\ attempts'[k].calls = 1
         /\ attempts'[k].cand \in PipelineMocks
    /\ (attempts[k].pc = "save" /\ attempts[k].cand \in PipelineMocks) =>
         /\ validateInvoice(attempts[k].cand, clock).errors = <<>>
         /\ attempts'[k].pc \in {"save", "hook", "done"}
         /\ (Leaves(k, "save") /\ invoices[attempts[k].id].exists) =>
              invoices'[attempts[k].id].status = "completed"
    /\ attempts[k].pc \in {"hook", "hookUpdate"} =>
         attempts'[k].pc \in {"hook", "hookUpdate", "done"}

ReturnedMock ==
  /\ extractionResult # NoExtraction
  /\ extractionResult = Returned(generateMockInvoiceData(extractionCall.draw))

\* C13: every synthetic record is arithmetically consistent: each line
\* item has amount = quantity x unitPrice, the subtotal is the sum of the
\* item amounts, the tax is 18% of the subtotal to the cent, and the total
\* is subtotal + tax
C13_MockConsistent ==
  ReturnedMock =>
    LET d == extractionResult.data
    IN /\ \A i \in 1..Len(d.lineItems) :
            d.lineItems[i].amount = d.lineItems[i].quantity * d.lineItems[i].unitPrice
       /\ d.subtotal = SumAmounts(d.lineItems)
       /\ Abs(100 * d.taxAmount - 18 * d.subtotal) <= 50
       /\ d.totalAmount = d.subtotal + d.taxAmount

\* C14: a call that fails with a transient or rate-limit error throws that
\* error to its caller and returns no synthetic record
C14_OnlyAuthFallsBack ==
  (/\ extractionResult # NoExtraction
   /\ ~ApiKeyMissing(extractionCall.apiKey)
   /\ extractionCall.response.error.kind \in {"Transient", "RateLimited"}) =>
    extractionResult = Thrown(extractionCall.response.error)

C15_Step ==
  \A k \in Slots :
    (Leaves(k, "catchUpdate") /\ invoices[attempts[k].id].exists) =>
      /\ invoices'[attempts[k].id].status = "failed"
      /\ invoices'[attempts[k].id].lastError = attempts[k].error
      /\ invoices'[attempts[k].id].retryCount = invoices[attempts[k].id].retryCount + 1
      /\ attempts'[k].pc \in {"catchHook", "done"}

\* C15: an attempt that ends with an exception writes failed and the
\* message of the error, adds exactly 1 to retryCount, and finishes through
\* its finally block
C15_FailureRecorded == [][C15_Step]_vars

TerminalStatus == {"completed", "review_required", "failed"}

C16_Step ==
  \A k \in Slots :
    LET a == attempts[k]
        id == attempts[k].id
    IN \* the webhook is sent only after the status write, to a job with a URL
       /\ (attempts'[k].pc = "hook" /\ a.pc # "hook") =>
            /\ a.pc = "save" /\ a.webhookUrl
            /\ invoices[id].exists => invoices'[id].status \in {"completed", "review_required"}
       /\ (attempts'[k].pc = "catchHook" /\ a.pc # "catchHook") =>
            /\ a.pc = "catchUpdate" /\ a.webhookUrl
            /\ invoices[id].exists => invoices'[id].status = "failed"
       /\ (a.pc \in {"save", "catchUpdate"} /\ attempts'[k].pc # a.pc /\ ~a.webhookUrl) =>
            attempts'[k].pc = "done"
       \* whatever the delivery does, the attempt goes on and no row changes
       /\ Leaves(k, "hook") => attempts'[k].pc = "hookUpdate" /\ invoices' = invoices
       /\ Leaves(k, "hookUpdate") => attempts'[k].pc = "done" /\ invoices' = invoices
       /\ Leaves(k, "catchHook") => attempts'[k].pc = "done" /\ invoices' = invoices

C17_SendWebhookNeverRaises ==
  webhookResult # NoDelivery =>
    /\ ~webhookResult.threw
    /\ webhookResult.posts = 1
    /\ webhookResult.success = AxiosResolves(webhookCall)
    /\ ~AxiosResolves(webhookCall) => webhookResult.error = webhookCall.message

C17_Witness ==
  /\ webhookResult # NoDelivery
  /\ webhookCall.message = "timeout of 10000ms exceeded"
  /\ ~webhookResult.success

\* C18: the confidence score that updateInvoiceWithExtraction sets is
\* between 0 and 1, whatever the base confidence and the number of errors
\* and warnings
C18_ConfidenceInRange ==
  confidenceScore # NullNum => confidenceScore >= 0 /\ confidenceScore <= ConfidenceOne

C18_Witness ==
  /\ confidenceScore = 0
  /\ Len(validationResult.errors) >= 5
  /\ baseConfidence(candidate) > 0

\* a finding with this text is in the list
Has(findings, text) == \E i \in 1..Len(findings) : findings[i][1] = text

\* C19: for a record with a total, with or without line items, a total
\* that differs from subtotal + tax - discount + shipping by more than one
\* cent gets a total finding: an error when the difference is more than 5%
\* of the expected total, a warning otherwise; a smaller difference gets
\* neither
C19_TotalChecked ==
  (validationResult # NoResult /\ candidate \in TotalCandidates) =>
    LET expectedTotal == candidate.subtotal + OrZero(candidate.taxAmount)
                           - OrZero(candidate.discountAmount)
                           + OrZero(candidate.shippingAmount)
        totalDiff == Abs(candidate.totalAmount - expectedTotal)
        error == Has(validationResult.errors, "Total mismatch")
        warning == Has(validationResult.warnings, "Minor total discrepancy")
    IN /\ error = (totalDiff > 1 /\ 20 * totalDiff > expectedTotal)
       /\ warning = (totalDiff > 1 /\ ~(20 * totalDiff > expectedTotal))

\* C20: validation reports a calculation error for line item i exactly
\* when its amount differs from quantity x unitPrice by more than one cent,
\* zero values included
C20_LineItemChecked ==
  validationResult # NoResult =>
    \A i \in 1..Len(candidate.lineItems) :
      LET item == candidate.lineItems[i]
      IN (\E e \in 1..Len(validationResult.errors) :
            validationResult.errors[e] = Msg("Line item calculation error", i))
           = (Abs(item.amount - item.quantity * item.unitPrice) > 1)

\* C21: two calls of validateInvoice on the same record, made at any two
\* moments, return the same errors and the same warnings, and the record is
\* not modified by a call
C21_Pure ==
  /\ []((validationResult # NoResult /\ revalidationResult # NoResult) =>
          /\ revalidationResult.errors = validationResult.errors
          /\ revalidationResult.warnings = validationResult.warnings)
  /\ [][candidate' = candidate]_vars

\* C25: for a record with line items and an extracted subtotal, a subtotal
\* that differs from the sum of the item amounts by more than one cent
\* gets one subtotal finding: an error when the difference is more than 5%
\* of the sum, a warning otherwise; a smaller difference gets neither.
\* This for a positive, a zero and a negative sum
C25_SubtotalChecked ==
  (validationResult # NoResult /\ candidate.lineItems # <<>>
     /\ candidate.subtotal # NullNum) =>
    LET calculatedSubtotal == SumAmounts(candidate.lineItems)
        subtotalDiff == Abs(candidate.subtotal - calculatedSubtotal)
        error == Has(validationResult.errors, "Subtotal mismatch")
        warning == Has(validationResult.warnings, "Minor subtotal discrepancy")
    IN /\ error = (subtotalDiff > 1 /\ 20 * subtotalDiff > Abs(calculatedSubtotal))
       /\ warning = (subtotalDiff > 1 /\ ~(20 * subtotalDiff > Abs(calculatedSubtotal)))

\* C26: a record whose total amount is zero or negative gets the error
\* 'Total amount must be positive', and the status chosen for it is
\* review_required
C26_NonPositiveTotalRejected ==
  (validationResult # NoResult /\ candidate.totalAmount # NullNum
     /\ candidate.totalAmount <= 0) =>
    /\ Has(validationResult.errors, "Total amount must be positive")
    /\ finalStatus(validationResult) = "review_required"

\* C27: the confidence score that updateInvoiceWithExtraction sets is the
\* mean of the components present (fraction of the five important fields,
\* mean line-item confidence, reported confidence), less 0.1 per error and
\* 0.02 per warning, clamped to 0..1
C27_ConfidenceIsPenalisedMean ==
  confidenceScore # NullNum =>
    confidenceScore =
      adjustConfidenceScore(calculateConfidenceScore(candidate), validationResult)

\* the processBatch call has returned or thrown
BatchEnded == batch.pc \in {"returned", "thrown"}

\* C22: a processBatch call over N documents that has returned has created
\* N jobs, each with the batch id of the call; and once the call has ended,
\* every job it created has been put on the queue once, in document order,
\* so none is left pending without having been enqueued
C22_BatchEnqueuesAll ==
  /\ \A i \in 1..Len(batch.invoices) :
       invoices[batch.invoices[i]].exists =>
         invoices[batch.invoices[i]].batchId = batch.batchId
  /\ batch.pc = "returned" =>
       /\ Len(batch.invoices) = batch.files
       /\ \A i, j \in 1..Len(batch.invoices) :
            batch.invoices[i] = batch.invoices[j] => i = j
  /\ BatchEnded => enqLog = batch.invoices

\* C24: once completed or review_required has been written for a job, no
\* later step of the attempt that wrote it changes the status
C24_TerminalWrittenOnce ==
  [][\A k \in Slots :
       LET id == attempts[k].id
       IN (/\ InFlight(k)
           /\ attempts'[k] # attempts[k]
           /\ invoices[id].exists
           /\ invoices[id].status \in {"completed", "review_required"}) =>
            invoices'[id].status = invoices[id].status]_vars

\* the processInvoice calls that have started and not finished
Running == {k \in Slots : InFlight(k)}

C28_Step ==
  /\ activeProcessing' - activeProcessing =
       (Len(attempts') - Len(attempts))
         - Cardinality({k \in Running : attempts'[k].pc = "done"})
  /\ \A k \in Slots : ~InFlight(k) => attempts'[k] = attempts[k]

\* C28: activeProcessing is the number of processInvoice calls that have
\* started and not finished: it goes up by one for each call started and
\* down by one for each call that ends, however it ends, and never again
\* for that call; it is never negative
C28_CounterIsInFlight ==
  /\ [](activeProcessing = Cardinality(Running) /\ activeProcessing >= 0)
  /\ [][C28_Step]_vars

\* a call has ended by an exception inside its failure handler, the row
\* still says processing, and the counter is back at 0
C28_Witness ==
  /\ activeProcessing = 0
  /\ \E k \in Slots :
       /\ attempts[k].pc = "done"
       /\ invoices[attempts[k].id].exists
       /\ invoices[attempts[k].id].status = "processing"

\* the jobs that carry this batch id
JobsOf(batchId) == {j \in Ids : invoices[j].exists /\ invoices[j].batchId = batchId}

\* a getBatchStatus call returns in this step
C30_Step ==
  batchStatus' # batchStatus =>
    /\ batchStatus'.totalCount = Cardinality(JobsOf(batchStatus'.batchId))
    /\ UNCHANGED <<invoices, processingQueue, activeProcessing, attempts, enqLog, batch>>

\* C30: getBatchStatus changes no job, queue or counter, its totalCount is
\* the number of jobs with the batch id, and its three counts add up to
\* totalCount whatever the statuses of the jobs
C30_StatusPartitions ==
  /\ [](batchStatus.completedCount + batchStatus.failedCount + batchStatus.pendingCount
          = batchStatus.totalCount)
  /\ [][C30_Step]_vars

\* every job of the batch that was submitted with a webhook URL has a
\* terminal status
BatchTerminal ==
  /\ batch.pc = "returned"
  /\ batch.webhookUrl
  /\ \A i \in 1..Len(batch.invoices) :
       invoices[batch.invoices[i]].status \in TerminalStatus

\* C23: when every job of a batch that was submitted with a webhook URL has
\* reached a terminal status, a batch.completed event is posted in the end
C23_BatchCompletedSent == BatchTerminal ~> batchCompleted

\* id j has been pushed on the queue
Enqueued(j) == \E i \in 1..Len(enqLog) : enqLog[i] = j

\* a processInvoice call for id j has finished
FinishedFor(j) == \E k \in Slots : attempts[k].id = j /\ attempts[k].pc = "done"

\* every enqueued id is admitted and its attempt finishes
C29_Finishes == \A j \in Ids : Enqueued(j) ~> FinishedFor(j)

\* C29: with every external call returning or throwing in the end, every
\* enqueued job id is admitted and its attempt finishes, and an attempt
\* that finishes leaves the stored status terminal, also when a database
\* call of the attempt or of its failure handler throws
C29_EndsTerminal ==
  /\ C29_Finishes
  /\ [][\A k \in Slots :
         (InFlight(k) /\ attempts'[k].pc = "done" /\ invoices'[attempts[k].id].exists) =>
           invoices'[attempts[k].id].status \in TerminalStatus]_vars

====
